---- MODULE Spec2Model ----
(***************************************************************************)
(* A model of the interactive vault browser of obsidian-cli                *)
(* (src/src/tui/mod.rs): the folder list, the expansion set, the lazy      *)
(* notes cache, the key handler, and the terminal / editor lifecycle of    *)
(* tui::run and run_app; and of the command `config set`                   *)
(* (src/src/commands/config.rs).                                           *)
(*                                                                         *)
(* Names are sequences of one-character strings, paths are sequences of    *)
(* names ("/" is the empty path), so that Path::parent, Path::extension,   *)
(* starts_with('.') and the case-insensitive sort are computed, not        *)
(* assumed.                                                                *)
(***************************************************************************)
EXTENDS Integers, Sequences, FiniteSets, TLC

VARIABLES
    vault,        \* index into Vaults: the vault this run was started on
    disk,         \* the filesystem: directory path -> directory contents
    app,          \* the AppState record (NoApp before AppState::new)
    pc,           \* position of tui::run / run_app
    raw_mode,     \* terminal: raw mode enabled
    alt_screen,   \* terminal: alternate screen entered
    res,          \* the Result run_app handed to run / run returned
    open_req,     \* the AppAction::Open being carried out (editor, note)
    launch_result,\* the Result of launch_editor
    edits,        \* number of editor launches so far
    hist,         \* the first key presses handled, in order
    config_file,  \* the persisted configuration (cli_config::read / write)
    command_result, \* what the last `config set` returned (printed by main)
    config_ops    \* the calls of cli_config the last `config set` made

vars == <<vault, disk, app, pc, raw_mode, alt_screen, res, open_req,
          launch_result, edits, hist, config_file, command_result,
          config_ops>>

(***************************************************************************)
(* Bounds                                                                  *)
(***************************************************************************)
\* editor launches explored per session
MaxEdits == 1
\* key presses remembered in hist
MaxHist == 2

(***************************************************************************)
(* Option values                                                           *)
(***************************************************************************)
None == [some |-> FALSE]
Some(v) == [some |-> TRUE, val |-> v]

Min2(a, b) == IF a < b THEN a ELSE b
Max2(a, b) == IF a > b THEN a ELSE b
\* isize::clamp
clamp(x, lo, hi) == Max2(lo, Min2(hi, x))

(***************************************************************************)
(* Names and paths                                                         *)
(***************************************************************************)
\* char::to_lowercase on the characters used
LowerChar(c) ==
    CASE c = "A" -> "a" [] c = "B" -> "b" [] c = "C" -> "c" [] c = "D" -> "d"
      [] c = "M" -> "m" [] c = "Z" -> "z" [] OTHER -> c
\* the byte of a lower-case character (str::cmp compares bytes)
ByteOf(l) ==
    CASE l = "." -> 46 [] l = "_" -> 95 [] l = "a" -> 97 [] l = "b" -> 98
      [] l = "c" -> 99 [] l = "d" -> 100 [] l = "e" -> 101 [] l = "g" -> 103
      [] l = "h" -> 104 [] l = "l" -> 108 [] l = "m" -> 109 [] l = "n" -> 110
      [] l = "o" -> 111 [] l = "s" -> 115 [] l = "t" -> 116 [] l = "u" -> 117
      [] l = "v" -> 118 [] l = "x" -> 120 [] l = "z" -> 122
LowerCode(c) == ByteOf(LowerChar(c))
to_lowercase(name) == [i \in 1..Len(name) |-> LowerChar(name[i])]

RECURSIVE LowerCmp(_, _)
\* a.to_lowercase().cmp(&b.to_lowercase()): -1, 0 or 1
LowerCmp(a, b) ==
    IF a = <<>> /\ b = <<>> THEN 0
    ELSE IF a = <<>> THEN -1
    ELSE IF b = <<>> THEN 1
    ELSE IF LowerCode(Head(a)) < LowerCode(Head(b)) THEN -1
    ELSE IF LowerCode(Head(a)) > LowerCode(Head(b)) THEN 1
    ELSE LowerCmp(Tail(a), Tail(b))

Front(s) == SubSeq(s, 1, Len(s) - 1)
Last(s) == s[Len(s)]

\* Path::parent: None for "/" only
parent_of(path) == IF path = <<>> THEN None ELSE Some(Front(path))
\* Path::file_name
file_name(path) == IF path = <<>> THEN None ELSE Some(Last(path))
\* the part of a file name after its last '.', a leading '.' not counted
after_last_dot(n, dots) ==
    IF dots = {} THEN None
    ELSE Some(SubSeq(n, (CHOOSE i \in dots : \A j \in dots : j <= i) + 1, Len(n)))
\* Path::extension
extension(path) ==
    IF path = <<>> THEN None
    ELSE after_last_dot(Last(path), {i \in 2..Len(Last(path)) : Last(path)[i] = "."})

\* is_markdown
eq_ignore_ascii_case_md(e) == e.some /\ to_lowercase(e.val) = <<"m", "d">>
is_markdown(path) == eq_ignore_ascii_case_md(extension(path))

nA == <<"A">>
nB == <<"B">>
nC == <<"C">>
nD == <<"D">>
nZ == <<"Z">>
nGit == <<".", "g">>
nNodeModules == <<"n", "o", "d", "e", "_", "m", "o", "d", "u", "l", "e", "s">>
nH == <<"h">>
nV == <<".", "v">>
nXmd == <<"x", ".", "m", "d">>
nAmd == <<"A", ".", "M", "D">>
nZmd == <<"z", ".", "m", "d">>
nTxt == <<"n", ".", "t", "x", "t">>

(***************************************************************************)
(* Note contents and tag extraction                                        *)
(***************************************************************************)
\* str::trim on the lines used
trim(line) ==
    CASE line = " --- " -> "---" [] line = "  " -> "" [] OTHER -> line

\* a line YAML skips: nothing but white space
is_blank(line) == trim(line) = ""

\* serde_yaml on one line of a block mapping: the key and value it holds
YamlLine(line) ==
    CASE line = "tags: [work]" ->
           [ok |-> TRUE, key |-> "tags",
            val |-> [kind |-> "seq", items |-> <<Some("work")>>]]
      [] line = "tags: [a, b]" ->
           [ok |-> TRUE, key |-> "tags",
            val |-> [kind |-> "seq", items |-> <<Some("a"), Some("b")>>]]
      [] line = "tags: [a, 1]" ->
           [ok |-> TRUE, key |-> "tags",
            val |-> [kind |-> "seq", items |-> <<Some("a"), None>>]]
      [] line = "tags: a" ->
           [ok |-> TRUE, key |-> "tags", val |-> [kind |-> "str", s |-> "a"]]
      [] line = "tags: 3" ->
           [ok |-> TRUE, key |-> "tags", val |-> [kind |-> "num"]]
      [] line = "title: t" ->
           [ok |-> TRUE, key |-> "title", val |-> [kind |-> "str", s |-> "t"]]
      [] OTHER -> [ok |-> FALSE]

\* seq.iter().filter_map(|item| item.as_str())
RECURSIVE filter_strs(_)
filter_strs(items) ==
    IF items = <<>> THEN <<>>
    ELSE IF Head(items).some THEN <<Head(items).val>> \o filter_strs(Tail(items))
    ELSE filter_strs(Tail(items))

\* the lines up to (not including) the first closing delimiter
RECURSIVE front_matter_of(_)
front_matter_of(lines) ==
    IF lines = <<>> THEN <<>>
    ELSE IF trim(Head(lines)) = "---" THEN <<>>
    ELSE <<Head(lines)>> \o front_matter_of(Tail(lines))

\* a faulty match: the arm Some(Value::String(tag)) is missing
tags_of_value_sequences_only(v) ==
    CASE v.kind = "seq" -> filter_strs(v.items)
      [] OTHER -> <<>>

\* match value.get("tags")
tags_of_value(v) ==
    CASE v.kind = "seq" -> filter_strs(v.items)
      [] v.kind = "str" -> <<v.s>>
      [] OTHER -> <<>>

\* serde_yaml::from_str of the block and the lookup of `tags` in it
tags_of_parsed(parsed) ==
    IF \E i \in 1..Len(parsed) : ~parsed[i].ok THEN <<>>
    ELSE IF \A i \in 1..Len(parsed) : parsed[i].key # "tags" THEN <<>>
    ELSE tags_of_value(parsed[CHOOSE i \in 1..Len(parsed) : parsed[i].key = "tags"].val)

\* the block's lines as serde_yaml reads them: blank lines are skipped
parse_lines(lines) == [i \in 1..Len(lines) |-> YamlLine(lines[i])]

tags_of_front_matter(fm) ==
    IF fm = <<>> THEN <<>>
    ELSE tags_of_parsed(parse_lines(SelectSeq(fm, LAMBDA l : ~is_blank(l))))

extract_tags(content) ==
    IF content = <<>> \/ trim(Head(content)) # "---" THEN <<>>
    ELSE tags_of_front_matter(front_matter_of(Tail(content)))

cWork == <<"---", "tags: [work]", "---", "body">>
cPlain == <<"body">>
cTagA == <<"---", "tags: a", "---">>

(***************************************************************************)
(* The filesystem                                                          *)
(*                                                                         *)
(* disk maps a directory path to [readable, subdirs, files]: whether       *)
(* read_dir succeeds, the names of its subdirectories and its files, both  *)
(* in read_dir order.  A file is [name, meta_ok, mtime, readable,          *)
(* content]: whether fs::metadata succeeds (it fails on a dangling         *)
(* symlink), the modification time if the platform gives one, whether      *)
(* read_to_string succeeds, and the lines read.                            *)
(***************************************************************************)
File(name, content) ==
    [name |-> name, meta_ok |-> TRUE, mtime |-> Some(1), readable |-> TRUE,
     content |-> content]
Fx == File(nXmd, cWork)
Fx2 == [File(nXmd, cTagA) EXCEPT !.mtime = Some(2)]
FA == [File(nAmd, cPlain) EXCEPT !.mtime = None]
Ftxt == File(nTxt, cPlain)
\* a dangling symlink z.md: fs::metadata fails
Fdangling == [File(nZmd, <<>>) EXCEPT !.meta_ok = FALSE, !.readable = FALSE]

Dir(subdirs, files) ==
    [readable |-> TRUE, subdirs |-> subdirs, files |-> files]

\* the scenario vault: folder A holding x.md tagged work, empty folder B
TreeAB(p) ==
    (p :> Dir(<<nA, nB>>, <<>>))
    @@ ((p \o <<nA>>) :> Dir(<<>>, <<Fx>>))
    @@ ((p \o <<nB>>) :> Dir(<<>>, <<>>))

\* a deeper vault with a hidden directory, node_modules, a nested folder and
\* a folder Z whose listing holds a dangling symlink
TreeDeep(p) ==
    (p :> Dir(<<nGit, nA, nNodeModules, nZ>>, <<Ftxt, Fx>>))
    @@ ((p \o <<nGit>>) :> Dir(<<nD>>, <<>>))
    @@ ((p \o <<nGit, nD>>) :> Dir(<<>>, <<>>))
    @@ ((p \o <<nA>>) :> Dir(<<nC>>, <<Fx, Ftxt>>))
    @@ ((p \o <<nA, nC>>) :> Dir(<<>>, <<>>))
    @@ ((p \o <<nNodeModules>>) :> Dir(<<>>, <<>>))
    @@ ((p \o <<nZ>>) :> Dir(<<>>, <<Fdangling>>))

\* a vault with a subdirectory that cannot be listed
TreeDenied(p) ==
    (p :> Dir(<<nA>>, <<>>))
    @@ ((p \o <<nA>>) :> [Dir(<<>>, <<>>) EXCEPT !.readable = FALSE])

\* a vault whose root holds a dangling symlink named like a note
TreeBadRoot(p) ==
    (p :> Dir(<<>>, <<Fdangling>>))

\* what lies outside the vault: the directory holding it, with a note of its own
Outside(p) ==
    IF p = <<>> THEN <<>> :> Dir(<<>>, <<>>)
    ELSE Front(p) :> Dir(<<Last(p)>>, <<Fx>>)

pSlash == <<>>
pHome == <<nH, nV>>

\* the runs explored: the vault path handed to tui::run and the disk it finds
Vaults ==
    << [path |-> pSlash, disk |-> TreeAB(pSlash)],
       [path |-> pHome,  disk |-> TreeAB(pHome) @@ Outside(pHome)],
       [path |-> pSlash, disk |-> TreeDeep(pSlash)],
       [path |-> pHome,  disk |-> TreeDenied(pHome) @@ Outside(pHome)],
       [path |-> pHome,  disk |-> TreeBadRoot(pHome) @@ Outside(pHome)] >>

vault_path == Vaults[vault].path

(***************************************************************************)
(* Folder Tree Builder                                                     *)
(***************************************************************************)
starts_with_dot(name) == name # <<>> /\ Head(name) = "."

\* should_visit_dir, for a directory entry
should_visit_dir(name, depth) ==
    IF depth = 0 THEN TRUE
    ELSE ~starts_with_dot(name) /\ name # nNodeModules

\* path.parent() of an entry of the walk
entry_parent(path) == parent_of(path)

\* the FolderEntry pushed for a directory
FolderEntry(vp, path, depth) ==
    [path |-> path,
     name |-> IF depth = 0
              THEN (IF file_name(vp).some THEN file_name(vp).val ELSE <<"/">>)
              ELSE Last(path),
     depth |-> depth,
     parent |-> entry_parent(path)]

\* entries.push(entry) before what the walk yields below it
push_first(entry, below) ==
    [ok |-> below.ok, entries |-> <<entry>> \o below.entries]
walk_then(first, rest) ==
    [ok |-> rest.ok, entries |-> first.entries \o rest.entries]

RECURSIVE walk(_, _, _, _)
RECURSIVE walk_children(_, _, _, _, _)
RECURSIVE walk_rest(_, _, _, _, _, _)
\* WalkDir from path (a directory that is visited): the directory itself,
\* then its subdirectories in read_dir order; a directory that cannot be
\* listed yields an error, at which build_folder_entries returns
walk(d, vp, path, depth) ==
    IF path \notin DOMAIN d \/ ~d[path].readable
    THEN [ok |-> FALSE, entries |-> <<>>]
    ELSE push_first(FolderEntry(vp, path, depth),
                    walk_children(d, vp, path, d[path].subdirs, depth + 1))
walk_children(d, vp, path, names, depth) ==
    IF names = <<>> THEN [ok |-> TRUE, entries |-> <<>>]
    ELSE IF ~should_visit_dir(Head(names), depth)
    THEN walk_children(d, vp, path, Tail(names), depth)
    ELSE walk_rest(walk(d, vp, path \o <<Head(names)>>, depth),
                   d, vp, path, Tail(names), depth)
walk_rest(first, d, vp, path, names, depth) ==
    IF ~first.ok THEN first
    ELSE walk_then(first, walk_children(d, vp, path, names, depth))

\* build_folder_entries: Ok(entries) or Err
build_folder_entries(d, vp) == walk(d, vp, vp, 0)

\* initialize_expanded_folders
initialize_expanded_folders(folders, vp) ==
    {vp} \cup {folders[i].path : i \in {j \in 1..Len(folders) : folders[j].depth <= 1}}

(***************************************************************************)
(* Note Loader & Cache                                                     *)
(***************************************************************************)
NoteEntry(folder, f) ==
    [path |-> folder \o <<f.name>>,
     name |-> f.name,
     modified |-> f.mtime,
     tags |-> extract_tags(IF f.readable THEN f.content ELSE <<>>)]

RECURSIVE insert_sorted(_, _)
\* the place a stable sort by lower-cased name gives e after the elements
\* of sorted, which came before it
insert_sorted(sorted, e) ==
    IF sorted = <<>> THEN <<e>>
    ELSE IF LowerCmp(Last(sorted).name, e.name) <= 0 THEN sorted \o <<e>>
    ELSE insert_sorted(Front(sorted), e) \o <<Last(sorted)>>

RECURSIVE sort_by_name(_)
sort_by_name(entries) ==
    IF entries = <<>> THEN <<>>
    ELSE insert_sorted(sort_by_name(Front(entries)), Last(entries))

push_note(entry, rest) ==
    [ok |-> rest.ok, err |-> rest.err, notes |-> <<entry>> \o rest.notes]

RECURSIVE collect_notes(_, _)
\* the loop of read_notes over the directory's files: Err at the first
\* markdown file whose metadata cannot be read
collect_notes(folder, files) ==
    IF files = <<>> THEN [ok |-> TRUE, notes |-> <<>>, err |-> ""]
    ELSE IF ~is_markdown(folder \o <<Head(files).name>>)
    THEN collect_notes(folder, Tail(files))
    ELSE IF ~Head(files).meta_ok
    THEN [ok |-> FALSE, notes |-> <<>>, err |-> "failed to read metadata"]
    ELSE push_note(NoteEntry(folder, Head(files)), collect_notes(folder, Tail(files)))

\* entries.sort_by(...); Ok(entries)
sorted_result(got) ==
    [ok |-> got.ok, notes |-> sort_by_name(got.notes), err |-> got.err]

\* read_notes: Ok(sorted notes) or Err
read_notes(d, folder) ==
    IF folder \notin DOMAIN d THEN [ok |-> TRUE, notes |-> <<>>, err |-> ""]
    ELSE IF ~d[folder].readable
    THEN [ok |-> FALSE, notes |-> <<>>, err |-> "failed to read folder"]
    ELSE sorted_result(collect_notes(folder, d[folder].files))

\* let notes = read_notes(folder)?; cache.insert(folder, notes)
cache_insert(cache, folder, got) ==
    IF got.ok
    THEN [ok |-> TRUE, err |-> "", read |-> TRUE,
          cache |-> [p \in DOMAIN cache \cup {folder} |->
                       IF p = folder THEN got.notes ELSE cache[p]]]
    ELSE [ok |-> FALSE, cache |-> cache, err |-> got.err, read |-> TRUE]

\* ensure_notes_loaded: the cache afterwards, whether it returned Ok, and
\* whether it called read_notes
ensure_notes_loaded(d, cache, folder) ==
    IF folder \in DOMAIN cache
    THEN [ok |-> TRUE, cache |-> cache, err |-> "", read |-> FALSE]
    ELSE cache_insert(cache, folder, read_notes(d, folder))

(***************************************************************************)
(* AppState                                                                *)
(***************************************************************************)
Status(msg) == [msg |-> msg, note |-> <<>>, editor |-> ""]
Preview(kind, path, text) == [kind |-> kind, path |-> path, text |-> text]
Placeholder == Preview("placeholder", <<>>, <<>>)
EmptyPreview == Preview("empty", <<>>, <<>>)

EmptyCache == [p \in {} |-> <<>>]

\* history of the calls of read_notes since the session started or an edited
\* folder was last reloaded: the folders read once, and those read again
NoReads == [once |-> {}, again |-> {}]

\* the history after a call of read_notes(folder)
note_read(r, folder) ==
    IF folder \in r.once THEN [r EXCEPT !.again = @ \cup {folder}]
    ELSE [r EXCEPT !.once = @ \cup {folder}]

\* the history kept with the AppState, after ensure_notes_loaded returned
count_read(a, folder, loaded) ==
    IF loaded.read THEN [a EXCEPT !.reads = note_read(@, folder)] ELSE a

\* the value of app while no AppState exists
NoApp ==
    [vault_path |-> <<>>, editor_command |-> None, folders |-> <<>>,
     folder_index |-> [p \in {} |-> 0], expanded |-> {},
     selected_folder |-> <<>>, notes_cache |-> EmptyCache,
     selected_note |-> None, focus |-> "Folders",
     note_preview |-> EmptyPreview, base_status |-> Status(""),
     status |-> Status(""), reads |-> NoReads]

Ok(a) == [ok |-> TRUE, app |-> a, err |-> ""]
Err(a, e) == [ok |-> FALSE, app |-> a, err |-> e]

\* a faulty Focus::next: Notes leads back to Folders, the viewer is skipped
next_skipping_viewer(f) ==
    CASE f = "Folders" -> "Notes" [] f = "Notes" -> "Folders"
      [] f = "Viewer" -> "Folders"

\* Focus::next
next(f) ==
    CASE f = "Folders" -> "Notes" [] f = "Notes" -> "Viewer"
      [] f = "Viewer" -> "Folders"
\* Focus::prev
prev(f) ==
    CASE f = "Folders" -> "Viewer" [] f = "Notes" -> "Folders"
      [] f = "Viewer" -> "Notes"

\* self.folders.get(idx) for the index folder_index gives for path
folder_at(a, path) ==
    IF path \in DOMAIN a.folder_index
       /\ a.folder_index[path] + 1 \in 1..Len(a.folders)
    THEN Some(a.folders[a.folder_index[path] + 1])
    ELSE None

current_folder_entry(a) == folder_at(a, a.selected_folder)

RECURSIVE is_folder_visible(_, _)
RECURSIVE parent_visible(_, _)
is_folder_visible(a, folder) ==
    IF ~folder.parent.some THEN TRUE
    ELSE IF folder.parent.val \notin a.expanded THEN FALSE
    ELSE parent_visible(a, folder_at(a, folder.parent.val))
\* if let Some(parent_entry) = ... { return self.is_folder_visible(parent_entry) } true
parent_visible(a, parent_entry) ==
    IF parent_entry.some THEN is_folder_visible(a, parent_entry.val) ELSE TRUE

visible_folders(a) ==
    SelectSeq(a.folders, LAMBDA folder : is_folder_visible(a, folder))

\* Iterator::position: the first index (from 0) whose path is `path`
position_of(entries, path) ==
    IF \A i \in 1..Len(entries) : entries[i].path # path THEN None
    ELSE Some((CHOOSE i \in 1..Len(entries) :
                  /\ entries[i].path = path
                  /\ \A j \in 1..(i - 1) : entries[j].path # path) - 1)

visible_folder_index(a) == position_of(visible_folders(a), a.selected_folder)

notes_for_selected_folder(a) ==
    IF a.selected_folder \in DOMAIN a.notes_cache
    THEN a.notes_cache[a.selected_folder]
    ELSE <<>>

\* slice.get(idx) for an optional idx
get_note(notes, idx) ==
    IF idx.some /\ idx.val + 1 \in 1..Len(notes) THEN Some(notes[idx.val + 1])
    ELSE None

selected_note_entry(a) == get_note(notes_for_selected_folder(a), a.selected_note)

path_of(entry) == IF entry.some THEN Some(entry.val.path) ELSE None
selected_note_path(a) == path_of(selected_note_entry(a))

\* fs::read_to_string of the file `name` among `files`
read_file(files, name) ==
    IF \A i \in 1..Len(files) : files[i].name # name THEN None
    ELSE IF files[CHOOSE i \in 1..Len(files) : files[i].name = name].readable
    THEN Some(files[CHOOSE i \in 1..Len(files) : files[i].name = name].content)
    ELSE None

\* fs::read_to_string of a note path
read_to_string(d, path) ==
    IF Front(path) \in DOMAIN d THEN read_file(d[Front(path)].files, Last(path))
    ELSE None

preview_of(path, got) ==
    IF got.some THEN Preview("content", <<>>, got.val)
    ELSE Preview("error", path, <<>>)

preview_for(d, path) ==
    IF path.some THEN preview_of(path.val, read_to_string(d, path.val))
    ELSE Placeholder

refresh_note_preview(d, a) ==
    [a EXCEPT !.note_preview = preview_for(d, selected_note_path(a))]

set_status(a, message) == [a EXCEPT !.status = message]
reset_status(a) == [a EXCEPT !.status = a.base_status]

vault_name(name) == IF name.some THEN name.val ELSE <<"/">>
default_status_message(a) ==
    [msg |-> "Vault", note |-> vault_name(file_name(a.vault_path)), editor |-> ""]

\* select_folder after ensure_notes_loaded returned
select_loaded(d, a, path, loaded) ==
    IF ~loaded.ok THEN Err(count_read(a, path, loaded), loaded.err)
    ELSE Ok(refresh_note_preview(d,
            [count_read(a, path, loaded) EXCEPT
                      !.notes_cache = loaded.cache,
                      !.selected_folder = path,
                      !.selected_note =
                          IF loaded.cache[path] # <<>> THEN Some(0) ELSE None]))

select_folder(d, a, path) ==
    select_loaded(d, a, path, ensure_notes_loaded(d, a.notes_cache, path))

unwrap_or(opt, default) == IF opt.some THEN opt.val ELSE default

\* move_folder_selection once the target path is known
select_if_other(d, a, next_path) ==
    IF next_path # a.selected_folder THEN select_folder(d, a, next_path)
    ELSE Ok(a)

\* move_folder_selection over the visible list and the current index in it
move_in_visible(d, a, delta, visible, current_index) ==
    IF visible = <<>> THEN Ok(a)
    ELSE select_if_other(d, a,
            visible[clamp(current_index + delta, 0, Len(visible) - 1) + 1].path)

move_folder_selection(d, a, delta) ==
    move_in_visible(d, a, delta, visible_folders(a),
                    unwrap_or(visible_folder_index(a), 0))

expand_selected_folder(a) ==
    [a EXCEPT !.expanded = a.expanded \cup {a.selected_folder}]

\* the second half of collapse_selected_folder
select_parent_of(d, a, entry) ==
    IF entry.some /\ entry.val.parent.some
    THEN select_folder(d, a, entry.val.parent.val)
    ELSE Ok(a)

collapse_selected_folder(d, a) ==
    IF a.selected_folder \in a.expanded
    THEN Ok([a EXCEPT !.expanded = a.expanded \ {a.selected_folder}])
    ELSE select_parent_of(d, a, current_folder_entry(a))

move_note_in(d, a, delta, notes) ==
    IF notes = <<>>
    THEN [a EXCEPT !.selected_note = None, !.note_preview = EmptyPreview]
    ELSE refresh_note_preview(d,
            [a EXCEPT !.selected_note =
                Some(clamp(unwrap_or(a.selected_note, 0) + delta, 0, Len(notes) - 1))])

move_note_selection(d, a, delta) ==
    move_note_in(d, a, delta, notes_for_selected_folder(a))

\* a faulty prepare_open_action: the editor is resolved (and cached) before
\* the selected note is looked at
open_action_resolving_first(a, resolved, path) ==
    IF ~a.editor_command.some /\ ~resolved.some
    THEN [app |-> set_status(a, Status("no editor configured")), action |-> None]
    ELSE IF ~path.some
    THEN [app |-> set_status([a EXCEPT !.editor_command =
                                  IF @.some THEN @ ELSE resolved],
                             Status("Select a note to open")),
          action |-> None]
    ELSE [app |-> [a EXCEPT !.editor_command = IF @.some THEN @ ELSE resolved],
          action |-> Some([editor |-> IF a.editor_command.some
                                      THEN a.editor_command.val ELSE resolved.val,
                           note |-> path.val])]

\* a faulty prepare_open_action: a failed resolution falls back to "vi" and
\* opens the note
open_action_default_editor(a, resolved, path) ==
    IF ~path.some
    THEN [app |-> set_status(a, Status("Select a note to open")), action |-> None]
    ELSE IF a.editor_command.some
    THEN [app |-> a,
          action |-> Some([editor |-> a.editor_command.val, note |-> path.val])]
    ELSE [app |-> [a EXCEPT !.editor_command = IF resolved.some THEN resolved
                                               ELSE Some("vi")],
          action |-> Some([editor |-> IF resolved.some THEN resolved.val ELSE "vi",
                           note |-> path.val])]

\* a faulty prepare_open_action: the resolver is asked at every request and
\* its answer, if any, replaces the cached command
open_action_resolving_again(a, resolved, path) ==
    IF ~path.some
    THEN [app |-> set_status(a, Status("Select a note to open")), action |-> None]
    ELSE IF resolved.some
    THEN [app |-> [a EXCEPT !.editor_command = resolved],
          action |-> Some([editor |-> resolved.val, note |-> path.val])]
    ELSE IF a.editor_command.some
    THEN [app |-> a,
          action |-> Some([editor |-> a.editor_command.val, note |-> path.val])]
    ELSE [app |-> set_status(a, Status("no editor configured")), action |-> None]

\* prepare_open_action for the selected note's path, if any; `resolved` is
\* what cli_config::resolve_editor gives if asked: Some(command), None for Err
open_action_for(a, resolved, path) ==
    IF ~path.some
    THEN [app |-> set_status(a, Status("Select a note to open")), action |-> None]
    ELSE IF a.editor_command.some
    THEN [app |-> a,
          action |-> Some([editor |-> a.editor_command.val, note |-> path.val])]
    ELSE IF resolved.some
    THEN [app |-> [a EXCEPT !.editor_command = resolved],
          action |-> Some([editor |-> resolved.val, note |-> path.val])]
    ELSE [app |-> set_status(a, Status("no editor configured")), action |-> None]

prepare_open_action(a, resolved) ==
    open_action_for(a, resolved, selected_note_path(a))

\* the selection refresh_after_external_edit makes in the reloaded entries
reselect(entries, idx) ==
    IF idx.some THEN idx
    ELSE IF entries = <<>> THEN None
    ELSE Some(0)

\* refresh_after_external_edit after ensure_notes_loaded returned
refresh_reloaded(d, a, note_path, loaded) ==
    IF ~loaded.ok
    THEN Err([a EXCEPT !.notes_cache = loaded.cache, !.reads = NoReads],
             loaded.err)
    ELSE Ok(refresh_note_preview(d,
            [a EXCEPT !.notes_cache = loaded.cache,
                      !.reads = NoReads,
                      !.selected_note =
                          reselect(loaded.cache[a.selected_folder],
                                   position_of(loaded.cache[a.selected_folder],
                                               note_path))]))

\* self.notes_cache.remove(&self.selected_folder)
cache_remove(cache, folder) == [p \in DOMAIN cache \ {folder} |-> cache[p]]

refresh_after_external_edit(d, a, note_path) ==
    refresh_reloaded(d, a, note_path,
        ensure_notes_loaded(d, cache_remove(a.notes_cache, a.selected_folder),
                            a.selected_folder))

\* HashMap of path -> index built by AppState::new
index_folders(folders) ==
    [p \in {folders[i].path : i \in 1..Len(folders)} |->
        (CHOOSE i \in 1..Len(folders) :
            /\ folders[i].path = p
            /\ \A j \in (i + 1)..Len(folders) : folders[j].path # p) - 1]

\* the status set at the end of AppState::new
with_base_status(a, base) == [a EXCEPT !.base_status = base, !.status = base]

\* AppState::new once the selected folder's notes are loaded
new_loaded(d, vp, editor_command, folders, selected_folder, loaded) ==
    IF ~loaded.ok THEN Err(NoApp, loaded.err)
    ELSE Ok(refresh_note_preview(d,
            with_base_status(
                [vault_path |-> vp,
                 editor_command |-> editor_command,
                 folders |-> folders,
                 folder_index |-> index_folders(folders),
                 expanded |-> initialize_expanded_folders(folders, vp),
                 selected_folder |-> selected_folder,
                 notes_cache |-> loaded.cache,
                 selected_note |-> IF loaded.cache[selected_folder] # <<>>
                                   THEN Some(0) ELSE None,
                 focus |-> "Folders",
                 note_preview |-> EmptyPreview,
                 base_status |-> Status(""),
                 status |-> Status(""),
                 reads |-> note_read(NoReads, selected_folder)],
                default_status_message([vault_path |-> vp]))))

\* AppState::new once the folder list is built
new_selected(d, vp, editor_command, folders, selected_folder) ==
    new_loaded(d, vp, editor_command, folders, selected_folder,
               ensure_notes_loaded(d, EmptyCache, selected_folder))

new_built(d, vp, editor_command, built) ==
    IF ~built.ok THEN Err(NoApp, "walk failed")
    ELSE new_selected(d, vp, editor_command, built.entries,
                      IF built.entries # <<>> THEN built.entries[1].path ELSE vp)

\* AppState::new
AppState_new(d, vp, editor_command) ==
    new_built(d, vp, editor_command, build_folder_entries(d, vp))

(***************************************************************************)
(* Input State Machine                                                     *)
(***************************************************************************)
KeyCodes == {"q", "Tab", "BackTab", "Up", "Down", "Left", "Right", "Enter",
             "e", "o", "n", "d", "/", "Esc", "F1"}
KeyKinds == {"Press", "Release", "Repeat"}
KeyEvents == [code : KeyCodes, kind : KeyKinds]
\* the events the loop is fed: every press; a release and a repeat of the
\* keys an unfiltered handler would act on most visibly
PolledEvents ==
    {k \in KeyEvents : k.kind = "Press" \/ k.code \in {"q", "Down", "e"}}

Continue == [kind |-> "Continue", editor |-> "", note |-> <<>>]
\* a faulty handler: the arm of 'q' falls through to Ok(AppAction::Continue)
QuitFallsThrough == [kind |-> "Continue", editor |-> "", note |-> <<>>]
Quit == [kind |-> "Quit", editor |-> "", note |-> <<>>]
Open(editor, note) == [kind |-> "Open", editor |-> editor, note |-> note]

\* if let Err(err) = r { self.set_status(err.to_string()) }
status_on_err(r) == IF r.ok THEN r.app ELSE set_status(r.app, Status(r.err))

\* if let Some(action) = self.prepare_open_action()? { return Ok(action) }
open_or_continue(p) ==
    [app |-> p.app,
     action |-> IF p.action.some
                THEN Open(p.action.val.editor, p.action.val.note)
                ELSE Continue]

\* a faulty KeyCode::Left arm: the folder is collapsed whatever the focus is
key_left_any_focus(d, a) == status_on_err(collapse_selected_folder(d, a))

\* the arm KeyCode::Left of handle_key
key_left(d, a) ==
    IF a.focus = "Folders" THEN status_on_err(collapse_selected_folder(d, a))
    ELSE a

\* a faulty test of the event kind: only releases are ignored
not_a_press_release_only(key) == key.kind = "Release"

\* key.kind != KeyEventKind::Press
not_a_press(key) == key.kind # "Press"

\* handle_key: the AppState afterwards and the AppAction returned
handle_key(d, a, key, resolved) ==
    IF not_a_press(key) THEN [app |-> a, action |-> Continue]
    ELSE CASE key.code = "q" -> [app |-> a, action |-> Quit]
      [] key.code = "Tab" ->
           [app |-> [a EXCEPT !.focus = next(a.focus)], action |-> Continue]
      [] key.code = "BackTab" ->
           [app |-> [a EXCEPT !.focus = prev(a.focus)], action |-> Continue]
      [] key.code = "Up" ->
           [app |-> CASE a.focus = "Folders" ->
                           status_on_err(move_folder_selection(d, a, -1))
                      [] a.focus = "Notes" -> move_note_selection(d, a, -1)
                      [] a.focus = "Viewer" -> a,
            action |-> Continue]
      [] key.code = "Down" ->
           [app |-> CASE a.focus = "Folders" ->
                           status_on_err(move_folder_selection(d, a, 1))
                      [] a.focus = "Notes" -> move_note_selection(d, a, 1)
                      [] a.focus = "Viewer" -> a,
            action |-> Continue]
      [] key.code = "Left" -> [app |-> key_left(d, a), action |-> Continue]
      [] key.code = "Right" ->
           [app |-> IF a.focus = "Folders" THEN expand_selected_folder(a) ELSE a,
            action |-> Continue]
      [] key.code = "Enter" ->
           IF a.focus = "Folders"
           THEN [app |-> [expand_selected_folder(a) EXCEPT !.focus = "Notes"],
                 action |-> Continue]
           ELSE open_or_continue(prepare_open_action(a, resolved))
      [] key.code \in {"e", "o"} ->
           open_or_continue(prepare_open_action(a, resolved))
      [] key.code \in {"n", "d"} ->
           [app |-> set_status(a, Status("Action not implemented yet")),
            action |-> Continue]
      [] key.code = "/" ->
           [app |-> set_status(a, Status("Search is not implemented yet")),
            action |-> Continue]
      [] key.code = "Esc" ->
           [app |-> reset_status([a EXCEPT !.focus = "Folders"]),
            action |-> Continue]
      [] OTHER -> [app |-> a, action |-> Continue]

(***************************************************************************)
(* The command `config set` (src/src/commands/config.rs)                   *)
(***************************************************************************)
\* enum ThemeName, by its kebab-case names
ThemeNames == {"obsidian-dark", "obsidian-light", "solarized-dark",
               "solarized-light", "gruvbox-dark", "gruvbox-light"}

\* the editor commands given on the command line or found in the file
EditorNames == {"vim", "nvim", "/usr/bin/nvim"}

Config(editor, theme) == [editor |-> editor, theme |-> theme]
\* ThemeName::default() and no editor
DefaultConfig == Config(None, "obsidian-dark")
Configs ==
    {Config(e, t) : e \in {None} \cup {Some(n) : n \in EditorNames},
                    t \in ThemeNames}

\* struct SetArgs as clap accepts it: --clear-editor conflicts with --editor
SetArgs ==
    {a \in [editor : {None} \cup {Some(n) : n \in EditorNames},
            theme : {None} \cup {Some(t) : t \in ThemeNames},
            clear_editor : BOOLEAN] :
        ~(a.clear_editor /\ a.editor.some)}

\* how cli_config::read()? and cli_config::write(&config)? end
IoOutcomes == {"ok", "read", "write"}

NoResult == [ok |-> TRUE, out |-> ""]
CommandOk(out) == [ok |-> TRUE, out |-> out]
CommandErr(e) == [ok |-> FALSE, out |-> e]

\* config.editor after the first if / else if of set
editor_after(cfg, args) ==
    IF args.clear_editor THEN None
    ELSE IF args.editor.some THEN args.editor
    ELSE cfg.editor

\* config.theme after `if let Some(theme) = args.theme`
theme_after(cfg, args) ==
    IF args.theme.some THEN args.theme.val ELSE cfg.theme

\* a faulty set: the changes are applied to Config::default(), not to the
\* configuration read
set_from_default(cfg, args, io) ==
    IF ~args.editor.some /\ ~args.theme.some /\ ~args.clear_editor
    THEN [config |-> cfg, result |-> CommandOk("Nothing to update"),
          ops |-> <<>>]
    ELSE IF io = "read"
    THEN [config |-> cfg, result |-> CommandErr("read failed"),
          ops |-> <<"read">>]
    ELSE IF io = "write"
    THEN [config |-> cfg, result |-> CommandErr("write failed"),
          ops |-> <<"read", "write">>]
    ELSE [config |-> Config(editor_after(DefaultConfig, args),
                            theme_after(DefaultConfig, args)),
          result |-> CommandOk("Configuration updated"),
          ops |-> <<"read", "write">>]

\* a faulty set: the configuration is read before the flags are looked at
set_reading_first(cfg, args, io) ==
    IF io = "read"
    THEN [config |-> cfg, result |-> CommandErr("read failed"),
          ops |-> <<"read">>]
    ELSE IF ~args.editor.some /\ ~args.theme.some /\ ~args.clear_editor
    THEN [config |-> cfg, result |-> CommandOk("Nothing to update"),
          ops |-> <<"read">>]
    ELSE IF io = "write"
    THEN [config |-> cfg, result |-> CommandErr("write failed"),
          ops |-> <<"read", "write">>]
    ELSE [config |-> Config(editor_after(cfg, args), theme_after(cfg, args)),
          result |-> CommandOk("Configuration updated"),
          ops |-> <<"read", "write">>]

\* set(args) on the persisted configuration cfg: the configuration persisted
\* afterwards, the CommandResult, and the calls of cli_config::read and
\* cli_config::write made on the way, in order (a call that fails is a call)
set(cfg, args, io) ==
    IF ~args.editor.some /\ ~args.theme.some /\ ~args.clear_editor
    THEN [config |-> cfg, result |-> CommandOk("Nothing to update"),
          ops |-> <<>>]
    ELSE IF io = "read"
    THEN [config |-> cfg, result |-> CommandErr("read failed"),
          ops |-> <<"read">>]
    ELSE IF io = "write"
    THEN [config |-> cfg, result |-> CommandErr("write failed"),
          ops |-> <<"read", "write">>]
    ELSE [config |-> Config(editor_after(cfg, args), theme_after(cfg, args)),
          result |-> CommandOk("Configuration updated"),
          ops |-> <<"read", "write">>]

(***************************************************************************)
(* Terminal / process lifecycle: tui::run and run_app                      *)
(***************************************************************************)
NoReq == [editor |-> "", note |-> <<>>]
Overflow == <<"more">>

\* what cli_config::read gives run for the editor (None also when it fails)
ConfiguredEditors == {None, Some("vim")}
\* what cli_config::resolve_editor gives when asked (None: Err)
ResolvedEditors == {None, Some("vim")}

Init ==
    /\ vault \in 1..Len(Vaults)
    /\ disk = Vaults[vault].disk
    /\ app = NoApp
    /\ pc = "start"
    /\ raw_mode = FALSE
    /\ alt_screen = FALSE
    /\ res = "none"
    /\ open_req = NoReq
    /\ launch_result = "none"
    /\ edits = 0
    /\ hist = <<>>
    /\ config_file = DefaultConfig
    /\ command_result = NoResult
    /\ config_ops = <<>>

\* run_app returns r to run: its locals (the AppState among them) are dropped
ReturnFromRunApp(r) ==
    /\ pc' = "teardown"
    /\ res' = r
    /\ app' = NoApp
    /\ open_req' = NoReq
    /\ launch_result' = "none"
    /\ edits' = 0
    /\ hist' = <<>>

\* run, up to the call of run_app: each step may fail and return at once
RunSetup ==
    /\ pc = "start"
    /\ \E cfg \in ConfiguredEditors,
          outcome \in {"ok", "enable_raw_mode", "EnterAlternateScreen",
                       "Terminal::new", "clear"} :
          /\ raw_mode' = (outcome # "enable_raw_mode")
          /\ alt_screen' = (outcome \notin {"enable_raw_mode", "EnterAlternateScreen"})
          /\ IF outcome = "ok"
             THEN /\ pc' = "new"
                  /\ res' = res
                  /\ app' = [NoApp EXCEPT !.editor_command = cfg]
             ELSE /\ pc' = "returned"
                  /\ res' = "err"
                  /\ app' = app
    /\ UNCHANGED <<config_file, command_result, config_ops, vault, disk, open_req, launch_result, edits, hist>>

\* let mut app = AppState::new(...)?, given what AppState::new returned
Started(r) ==
    IF r.ok
    THEN /\ app' = r.app
         /\ pc' = "loop"
         /\ UNCHANGED <<res, open_req, launch_result, edits, hist>>
    ELSE ReturnFromRunApp("err")

\* run_app: AppState::new(...)?
RunAppNew ==
    /\ pc = "new"
    /\ Started(AppState_new(disk, vault_path, app.editor_command))
    /\ UNCHANGED <<config_file, command_result, config_ops, vault, disk, raw_mode, alt_screen>>

\* one iteration of the loop of run_app is one step: terminal.draw(...)?,
\* event::poll(...)?, event::read()? and the handling of the event read.

\* the iteration's terminal.draw(...)? fails
DrawFail ==
    /\ pc = "loop"
    /\ ReturnFromRunApp("err")
    /\ UNCHANGED <<config_file, command_result, config_ops, vault, disk, raw_mode, alt_screen>>

\* the frame is drawn; event::poll times out, or the event read is a resize
\* or another non-key event
PollIdle ==
    /\ pc = "loop"
    /\ pc' = "loop"
    /\ UNCHANGED <<config_file, command_result, config_ops, vault, disk, app, raw_mode, alt_screen, res, open_req,
                   launch_result, edits, hist>>

\* the frame is drawn; event::poll(...)? or event::read()? fails
PollFail ==
    /\ pc = "loop"
    /\ ReturnFromRunApp("err")
    /\ UNCHANGED <<config_file, command_result, config_ops, vault, disk, raw_mode, alt_screen>>

\* whether handle_key calls cli_config::resolve_editor for this key
asks_resolver(a, key) ==
    /\ key.kind = "Press"
    /\ key.code \in {"e", "o"} \/ (key.code = "Enter" /\ a.focus # "Folders")
    /\ selected_note_path(a).some
    /\ ~a.editor_command.some

\* hist after a key event
record_key(h, key) ==
    IF key.kind # "Press" THEN h
    ELSE IF h # Overflow /\ Len(h) < MaxHist THEN Append(h, key.code)
    ELSE Overflow

\* match app.handle_key(key)? { Quit => break, Continue => {}, Open => ... }
Handled(r, key) ==
    CASE r.action.kind = "Quit" -> ReturnFromRunApp("ok")
      [] r.action.kind = "Continue" ->
           /\ app' = r.app
           /\ pc' = "loop"
           /\ hist' = record_key(hist, key)
           /\ UNCHANGED <<res, open_req, launch_result, edits>>
      [] r.action.kind = "Open" ->
           /\ edits < MaxEdits
           /\ app' = r.app
           /\ pc' = "suspend"
           /\ open_req' = [editor |-> r.action.editor, note |-> r.action.note]
           /\ hist' = record_key(hist, key)
           /\ UNCHANGED <<res, launch_result, edits>>

\* the frame is drawn and the event read is Event::Key(key)
PollKey(key) ==
    /\ pc = "loop"
    /\ \E resolved \in IF asks_resolver(app, key) THEN ResolvedEditors ELSE {None} :
          Handled(handle_key(disk, app, key, resolved), key)
    /\ UNCHANGED <<config_file, command_result, config_ops, vault, disk, raw_mode, alt_screen>>

\* suspend_terminal(terminal)?
Suspend ==
    /\ pc = "suspend"
    /\ \E outcome \in {"ok", "disable_raw_mode", "LeaveAlternateScreen",
                       "show_cursor"} :
          /\ raw_mode' = IF outcome = "disable_raw_mode" THEN raw_mode ELSE FALSE
          /\ alt_screen' = IF outcome \in {"disable_raw_mode", "LeaveAlternateScreen"}
                           THEN alt_screen ELSE FALSE
          /\ IF outcome = "ok"
             THEN /\ pc' = "launch"
                  /\ UNCHANGED <<app, res, open_req, launch_result, edits, hist>>
             ELSE ReturnFromRunApp("err")
    /\ UNCHANGED <<config_file, command_result, config_ops, vault, disk>>

\* what the editor may leave in the directory of the note it was given
EditOutcomes(dir) ==
    {dir,
     [dir EXCEPT !.files = <<>>],
     [dir EXCEPT !.files = <<Fx2, FA>>],
     [dir EXCEPT !.files = <<Fx, Fdangling>>]}

\* what the editor leaves given how it ended: one that exits with a failure
\* status leaves the directory as it was or rewritten
outcomes_of(result, dir) ==
    IF result = "ok" THEN EditOutcomes(dir)
    ELSE {dir, [dir EXCEPT !.files = <<Fx2, FA>>]}

\* a faulty loop: `launch_editor(&editor, &note)?` returns from run_app when
\* the editor fails, so that resume_terminal is skipped
LaunchPropagatesError ==
    /\ pc = "launch"
    /\ \E result \in {"ok", "exit", "spawn"} :
          /\ IF result = "spawn" THEN disk' = disk
             ELSE \E after \in outcomes_of(result, disk[Front(open_req.note)]) :
                     disk' = [disk EXCEPT ![Front(open_req.note)] = after]
          /\ IF result = "ok"
             THEN /\ launch_result' = result
                  /\ edits' = edits + 1
                  /\ pc' = "resume"
                  /\ UNCHANGED <<app, res, open_req, hist>>
             ELSE ReturnFromRunApp("err")
    /\ UNCHANGED <<config_file, command_result, config_ops, vault, raw_mode, alt_screen>>

\* launch_editor(&editor, &note): the child runs to its end
Launch ==
    /\ pc = "launch"
    /\ \E result \in {"ok", "exit", "spawn"} :
          /\ launch_result' = result
          /\ IF result = "spawn" THEN disk' = disk
             ELSE \E after \in outcomes_of(result, disk[Front(open_req.note)]) :
                     disk' = [disk EXCEPT ![Front(open_req.note)] = after]
    /\ edits' = edits + 1
    /\ pc' = "resume"
    /\ UNCHANGED <<config_file, command_result, config_ops, vault, app, raw_mode, alt_screen, res, open_req, hist>>

\* resume_terminal(terminal)?
Resume ==
    /\ pc = "resume"
    /\ \E outcome \in {"ok", "EnterAlternateScreen", "enable_raw_mode",
                       "hide_cursor", "clear"} :
          /\ alt_screen' = IF outcome = "EnterAlternateScreen" THEN alt_screen
                           ELSE TRUE
          /\ raw_mode' = IF outcome \in {"EnterAlternateScreen", "enable_raw_mode"}
                         THEN raw_mode ELSE TRUE
          /\ IF outcome = "ok"
             THEN /\ pc' = "after_edit"
                  /\ UNCHANGED <<app, res, open_req, launch_result, edits, hist>>
             ELSE ReturnFromRunApp("err")
    /\ UNCHANGED <<config_file, command_result, config_ops, vault, disk>>

\* the arm Ok(()) of the match on launch_result
status_after_refresh(r, req) ==
    IF ~r.ok THEN set_status(r.app, Status(r.err))
    ELSE set_status(r.app,
             [msg |-> "Opened", note |-> Last(req.note), editor |-> req.editor])

\* the status text of a failed launch_editor
launch_error(result, req) ==
    IF result = "exit" THEN Status("Editor exited with status")
    ELSE [msg |-> "failed to execute editor", note |-> <<>>, editor |-> req.editor]

\* a faulty loop: the folder is invalidated and reloaded whatever
\* launch_editor returned
AfterEditAlwaysRefreshes ==
    /\ pc = "after_edit"
    /\ app' =
         IF launch_result = "ok"
         THEN status_after_refresh(
                  refresh_after_external_edit(disk, app, open_req.note), open_req)
         ELSE set_status(refresh_after_external_edit(disk, app, open_req.note).app,
                         launch_error(launch_result, open_req))
    /\ pc' = "loop"
    /\ open_req' = NoReq
    /\ launch_result' = "none"
    /\ UNCHANGED <<config_file, command_result, config_ops, vault, disk, raw_mode, alt_screen, res, edits, hist>>

\* match launch_result { Ok(()) => refresh ..., Err(err) => set_status }
AfterEdit ==
    /\ pc = "after_edit"
    /\ app' =
         IF launch_result = "ok"
         THEN status_after_refresh(
                  refresh_after_external_edit(disk, app, open_req.note), open_req)
         ELSE IF launch_result = "exit"
         THEN set_status(app, Status("Editor exited with status"))
         ELSE set_status(app, [msg |-> "failed to execute editor", note |-> <<>>,
                               editor |-> open_req.editor])
    /\ pc' = "loop"
    /\ open_req' = NoReq
    /\ launch_result' = "none"
    /\ UNCHANGED <<config_file, command_result, config_ops, vault, disk, raw_mode, alt_screen, res, edits, hist>>

\* run, after run_app returned: each step may fail and return at once
Teardown ==
    /\ pc = "teardown"
    /\ \E outcome \in {"ok", "disable_raw_mode", "LeaveAlternateScreen",
                       "show_cursor"} :
          /\ raw_mode' = IF outcome = "disable_raw_mode" THEN raw_mode ELSE FALSE
          /\ alt_screen' = IF outcome \in {"disable_raw_mode", "LeaveAlternateScreen"}
                           THEN alt_screen ELSE FALSE
          /\ res' = IF outcome = "ok" THEN res ELSE "err"
    /\ pc' = "returned"
    /\ UNCHANGED <<config_file, command_result, config_ops, vault, disk, app, open_req, launch_result, edits, hist>>

Next ==
    \/ RunSetup
    \/ RunAppNew
    \/ DrawFail
    \/ PollIdle
    \/ PollFail
    \/ \E key \in PolledEvents : PollKey(key)
    \/ Suspend
    \/ Launch
    \/ Resume
    \/ AfterEdit
    \/ Teardown

Spec == Init /\ [][Next]_vars

(***************************************************************************)
(* Properties                                                              *)
(***************************************************************************)
\* an AppState exists: run_app is between AppState::new and its return
InSession == pc \in {"loop", "suspend", "launch", "resume", "after_edit"}

\* the step handles a press of the key `code`
KeyPress(code) == PollKey([code |-> code, kind |-> "Press"])

\* C1: in every state of a session selected_note is absent or an index
\* smaller than the length of the cached note sequence of selected_folder;
\* it is absent when that sequence is empty or missing from the cache.
C1_SelectedNoteInBounds ==
    InSession /\ app.selected_note.some =>
        /\ app.selected_folder \in DOMAIN app.notes_cache
        /\ app.selected_note.val < Len(app.notes_cache[app.selected_folder])

\* C2: in every state of a session selected_folder is the path of an entry
\* of the folder list built at startup (a key of folder_index).
C2_SelectedFolderInList ==
    InSession => app.selected_folder \in DOMAIN app.folder_index

\* C3: the folder list has exactly one entry of depth 0, that entry has no
\* parent, and the parent of every entry of depth > 0 is the path of another
\* entry of the list.
C3_FolderListShape ==
    InSession =>
        /\ Cardinality({i \in 1..Len(app.folders) : app.folders[i].depth = 0}) = 1
        /\ \A i \in 1..Len(app.folders) :
              IF app.folders[i].depth = 0 THEN ~app.folders[i].parent.some
              ELSE /\ app.folders[i].parent.some
                   /\ \E j \in 1..Len(app.folders) :
                         j # i /\ app.folders[j].path = app.folders[i].parent.val

\* the folders above `path` in the vault, the vault root included
AncestorsInVault(vp, path) ==
    {SubSeq(path, 1, k) : k \in Len(vp)..(Len(path) - 1)}

\* C4: visible_folders() is, in folder-list order, exactly the folders all
\* of whose ancestors up to and including the vault root are expanded; the
\* vault root is in it for every expansion set.
C4_VisibleIsAncestorsExpanded ==
    InSession =>
        /\ visible_folders(app) =
             SelectSeq(app.folders,
                 LAMBDA f : AncestorsInVault(app.vault_path, f.path) \subseteq app.expanded)
        /\ \E i \in 1..Len(visible_folders(app)) :
              visible_folders(app)[i].path = app.vault_path

\* the clamp of C5 for a folder move by delta from position i of n
FolderMoveClamps(delta) ==
    app.focus = "Folders" /\ visible_folder_index(app).some =>
        /\ pc' = "loop"
        /\ visible_folder_index(app') =
             Some(clamp(visible_folder_index(app).val + delta, 0,
                        Len(visible_folders(app)) - 1))
        /\ clamp(visible_folder_index(app).val + delta, 0,
                 Len(visible_folders(app)) - 1) = visible_folder_index(app).val
             => app' = app

\* the clamp of C5 for a note move by delta from position i of n
NoteMoveClamps(delta) ==
    app.focus = "Notes" /\ selected_note_entry(app).some =>
        /\ pc' = "loop"
        /\ app'.selected_folder = app.selected_folder
        /\ app'.notes_cache = app.notes_cache
        /\ app'.status = app.status
        /\ app'.selected_note =
             Some(clamp(app.selected_note.val + delta, 0,
                        Len(notes_for_selected_folder(app)) - 1))

\* C5: move_folder_selection and move_note_selection clamp and never wrap:
\* from position i of a list of length n >= 1 the selection goes to
\* max(0, min(n-1, i+delta)); Up at 0 and Down at n-1 change nothing and
\* report no error; Down at i < n-1 moves to i+1.
C5_MovesClamp ==
    [][/\ KeyPress("Down") => FolderMoveClamps(1) /\ NoteMoveClamps(1)
       /\ KeyPress("Up") => FolderMoveClamps(-1) /\ NoteMoveClamps(-1)]_vars

\* C6: Left with focus Folders on the vault root, the root not expanded,
\* changes nothing.
C6_CollapseRootNoOp ==
    [][KeyPress("Left") /\ app.focus = "Folders"
         /\ app.selected_folder = app.vault_path
         /\ app.vault_path \notin app.expanded
       => /\ pc' = "loop"
          /\ app'.selected_folder = app.selected_folder
          /\ app'.selected_note = app.selected_note
          /\ app'.expanded = app.expanded
          /\ app'.notes_cache = app.notes_cache
          /\ app'.note_preview = app.note_preview]_vars

\* C7: Left with focus Folders on a non-root folder: if it is expanded it
\* is removed from the expansion set and the selection stays; if not, the
\* expansion set stays and the selection moves to the parent entry, the
\* selected note being the parent's first note, or absent if it has none.
C7_CollapseNonRoot ==
    [][KeyPress("Left") /\ app.focus = "Folders"
         /\ current_folder_entry(app).some
         /\ current_folder_entry(app).val.depth > 0
       => IF app.selected_folder \in app.expanded
          THEN /\ app'.expanded = app.expanded \ {app.selected_folder}
               /\ app'.selected_folder = app.selected_folder
               /\ app'.selected_note = app.selected_note
          ELSE /\ app'.expanded = app.expanded
               /\ Some(app'.selected_folder) = current_folder_entry(app).val.parent
               /\ app'.selected_note =
                    IF notes_for_selected_folder(app') # <<>> THEN Some(0) ELSE None]_vars

\* the vault of the scenario: folder A holding x.md tagged work, empty B
ScenarioVault ==
    \A q \in DOMAIN TreeAB(vault_path) :
        q \in DOMAIN Vaults[vault].disk
            /\ Vaults[vault].disk[q] = TreeAB(vault_path)[q]

\* C8: in the scenario vault the initial state selects the root, the root
\* is expanded and A (depth 1) is visible; after Down, Enter the selected
\* folder is A, focus is Notes and the selected note is x.md tagged work.
C8_Scenario ==
    ScenarioVault /\ pc = "loop" =>
        /\ hist = <<>> =>
              /\ app.selected_folder = vault_path
              /\ app.focus = "Folders"
              /\ vault_path \in app.expanded
              /\ \E i \in 1..Len(visible_folders(app)) :
                    /\ visible_folders(app)[i].path = vault_path \o <<nA>>
                    /\ visible_folders(app)[i].depth = 1
        /\ hist = <<"Down", "Enter">> =>
              /\ app.selected_folder = vault_path \o <<nA>>
              /\ app.focus = "Notes"
              /\ selected_note_entry(app).some
              /\ selected_note_entry(app).val.name = nXmd
              /\ selected_note_entry(app).val.tags = <<"work">>

\* C9: whenever run has returned after raw mode was enabled, raw mode is
\* disabled and the alternate screen has been left.
C9_TerminalRestored ==
    pc = "returned" => ~raw_mode /\ ~alt_screen

\* C10: for every Open action the loop suspends, launches and resumes in
\* this order: the editor runs only with raw mode off and the alternate
\* screen left, nothing is drawn, polled or handled in between, and
\* resume_terminal runs after the editor returned, whatever its result.
C10_SuspendLaunchResume ==
    /\ [](pc = "launch" => ~raw_mode /\ ~alt_screen)
    /\ [][/\ pc' = "launch" => pc = "suspend"
          /\ pc = "launch" => pc' = "resume" /\ launch_result' \in {"ok", "exit", "spawn"}
          /\ pc' = "resume" => pc = "launch"
          /\ pc = "resume" => (pc' = "after_edit" => raw_mode' /\ alt_screen')
          /\ pc \in {"suspend", "launch", "resume"} =>
                /\ pc' # "loop"
                /\ ~(DrawFail \/ PollIdle \/ PollFail \/ \E key \in KeyEvents : PollKey(key))
                /\ pc' # "teardown" => app' = app /\ hist' = hist
          /\ pc' = "after_edit" => pc = "resume"]_vars

\* the editor could not be started and the terminal was resumed all the same
C10_Witness ==
    pc = "after_edit" /\ launch_result = "spawn" /\ raw_mode /\ alt_screen

\* C11: a startup I/O failure (the vault root cannot be walked, or the
\* initial folder's notes cannot be read) aborts the session before the
\* terminal enters raw mode or the alternate screen: where AppState::new is
\* about to fail, enable_raw_mode and EnterAlternateScreen were not executed.
C11_StartupFailsBeforeRawMode ==
    pc = "new" /\ ~AppState_new(disk, vault_path, app.editor_command).ok
        => ~raw_mode /\ ~alt_screen

\* the selection C12 describes over the reloaded sequence: the note of the
\* edited path if it is there, else the first note, else none
ReselectedByPath(notes, note_path) ==
    IF position_of(notes, note_path).some THEN position_of(notes, note_path)
    ELSE IF notes # <<>> THEN Some(0)
    ELSE None

\* the state C12 describes after the reload of `folder` gave `reloaded`
ReloadedAndReselected(a, folder, reloaded, req) ==
    /\ reloaded.ok
    /\ folder \in DOMAIN a.notes_cache
    /\ a.notes_cache[folder] = reloaded.notes
    /\ a.selected_note = ReselectedByPath(reloaded.notes, req.note)
    /\ a.status = [msg |-> "Opened", note |-> Last(req.note), editor |-> req.editor]

\* C12: after an editor launch that reports success the cache entry of the
\* edited note's folder is re-read from disk, the selection is the index of
\* the edited note's path in the reloaded sequence if it is there, else 0
\* if the sequence is non-empty, else absent, and the status is the
\* confirmation message.
C12_ReloadReselectsByPath ==
    [][pc = "after_edit" /\ launch_result = "ok" =>
          ReloadedAndReselected(app', Front(open_req.note),
              read_notes(disk, Front(open_req.note)), open_req)]_vars

\* the disk with `folder` as it is, rewritten by an editor, or made unreadable
ChangedDisks(d, folder) ==
    {d} \cup {[d EXCEPT ![folder] = after] :
                 after \in EditOutcomes(d[folder])
                           \cup {[d[folder] EXCEPT !.readable = FALSE]}}

\* ensure_notes_loaded on a cached folder reads nothing and changes nothing
LoadIsIdempotent(d, cache) ==
    \A folder \in DOMAIN cache \cap DOMAIN d :
        \A d2 \in ChangedDisks(d, folder) :
            /\ ~ensure_notes_loaded(d2, cache, folder).read
            /\ ensure_notes_loaded(d2, cache, folder).ok
            /\ ensure_notes_loaded(d2, cache, folder).cache = cache

\* C13: ensure_notes_loaded is idempotent and reads at most once per cache
\* lifetime: for a folder with a cache entry it reads nothing and leaves the
\* cache identical even if the disk changed; over key events without a
\* successful editor launch no folder is read from disk more than once.
C13_ReadAtMostOnce ==
    InSession =>
        /\ LoadIsIdempotent(disk, app.notes_cache)
        /\ app.reads.again = {}

\* the press of the quit key
QuitKey == [code |-> "q", kind |-> "Press"]

\* C14: pressing 'q' in any state makes handle_key return Quit without
\* changing the session state, and the loop then ends: run_app returns Ok
\* and no frame is drawn and no event polled afterwards.
C14_QuitEndsSession ==
    /\ [](pc = "loop" =>
            /\ handle_key(disk, app, QuitKey, None).action.kind = "Quit"
            /\ handle_key(disk, app, QuitKey, None).app = app)
    /\ [][/\ PollKey(QuitKey) => pc' = "teardown" /\ res' = "ok"
          /\ pc \in {"teardown", "returned"} =>
                /\ pc' \in {"teardown", "returned"}
                /\ ~(DrawFail \/ PollIdle \/ PollFail
                       \/ \E key \in KeyEvents : PollKey(key))]_vars

\* the quit key is answered with Quit where the focus is on the viewer, a
\* note is selected and a status message is showing
C14_Witness ==
    /\ pc = "loop"
    /\ app.focus = "Viewer"
    /\ app.selected_note.some
    /\ app.status # app.base_status
    /\ handle_key(disk, app, QuitKey, None).action.kind = "Quit"

\* the key presses that request to open the selected note, given the focus
OpenRequests(a) ==
    {[code |-> c, kind |-> "Press"] :
        c \in IF a.focus = "Folders" THEN {"e", "o"} ELSE {"e", "o", "Enter"}}

\* C15: an open-note request made while no note is selected sets the
\* advisory status and yields no Open action: whatever the resolver would
\* answer, nothing but the status changes (focus, selected folder, selected
\* note, cache, expansion set and cached editor stay), and the terminal is
\* not suspended.
C15_OpenWithoutNote ==
    /\ [](pc = "loop" /\ ~selected_note_path(app).some =>
            \A key \in OpenRequests(app), resolved \in ResolvedEditors :
                handle_key(disk, app, key, resolved) =
                    [app |-> [app EXCEPT !.status = Status("Select a note to open")],
                     action |-> Continue])
    /\ [][\A key \in OpenRequests(app) :
             PollKey(key) /\ ~selected_note_path(app).some =>
                 /\ pc' = "loop"
                 /\ raw_mode' /\ alt_screen'
                 /\ app' = [app EXCEPT !.status = Status("Select a note to open")]]_vars

\* an open request was answered with the advisory status, no note selected
C15_Witness ==
    /\ pc = "loop"
    /\ ~selected_note_path(app).some
    /\ app.status = Status("Select a note to open")
    /\ app.focus = "Notes"

\* a note is selected, no editor command is cached
NeedsResolver(a) == selected_note_path(a).some /\ ~a.editor_command.some

\* C16: when a note is selected, no editor command is cached and the
\* resolution of the editor fails, the open request sets the status to the
\* error text and yields Continue; nothing but the status changes (focus,
\* selected folder and selected note stay), the terminal is not suspended
\* and the session keeps running.
C16_ResolveFailure ==
    /\ [](pc = "loop" /\ NeedsResolver(app) =>
            \A key \in OpenRequests(app) :
                handle_key(disk, app, key, None) =
                    [app |-> [app EXCEPT !.status = Status("no editor configured")],
                     action |-> Continue])
    /\ [][\A key \in OpenRequests(app) :
             /\ pc = "loop"
             /\ NeedsResolver(app)
             /\ Handled(handle_key(disk, app, key, None), key)
             => /\ pc' = "loop"
                /\ open_req' = open_req
                /\ app'.focus = app.focus
                /\ app'.selected_folder = app.selected_folder
                /\ app'.selected_note = app.selected_note
                /\ app'.status = Status("no editor configured")]_vars

\* an open request on a selected note ended with the resolver's error text
C16_Witness ==
    /\ pc = "loop"
    /\ NeedsResolver(app)
    /\ app.focus = "Viewer"
    /\ app.status = Status("no editor configured")

\* C17: when the editor cannot be started or exits with a non-zero or
\* missing status, the session continues after resume with the status set
\* to the error text, and focus, selected folder, selected note and the
\* notes cache are as they were before the Open action: the Open action
\* itself leaves them, nothing touches the AppState while the editor runs,
\* and afterwards only the status changes (no invalidation, no reload).
C17_EditorFailureKeepsState ==
    [][/\ pc = "loop" /\ pc' = "suspend" =>
             /\ app'.focus = app.focus
             /\ app'.selected_folder = app.selected_folder
             /\ app'.selected_note = app.selected_note
             /\ app'.notes_cache = app.notes_cache
             /\ app'.reads = app.reads
       /\ pc \in {"suspend", "launch", "resume"} /\ pc' # "teardown" => app' = app
       /\ pc = "after_edit" /\ launch_result \in {"exit", "spawn"} =>
             /\ pc' = "loop"
             /\ raw_mode' /\ alt_screen'
             /\ app' = [app EXCEPT !.status = launch_error(launch_result, open_req)]]_vars

\* the editor failed after rewriting the folder: the session goes on with the
\* error in the status line and the cached notes as they were, not reloaded
C17_Witness ==
    /\ pc = "loop"
    /\ app.status = Status("Editor exited with status")
    /\ app.selected_folder \in DOMAIN app.notes_cache
    /\ app.notes_cache[app.selected_folder] # read_notes(disk, app.selected_folder).notes

Focuses == {"Folders", "Notes", "Viewer"}

\* the AppState after a press of `code`
after_press(a, code) ==
    handle_key(disk, a, [code |-> code, kind |-> "Press"], None).app

\* C18: Tab and Shift-Tab move the focus along the cycle Folders, Notes,
\* Viewer, Folders: Tab applies next, Shift-Tab applies prev, prev is the
\* inverse of next, three Tabs (or three Shift-Tabs) return to the starting
\* focus, and neither key changes anything else of the session state.
C18_FocusCycle ==
    /\ next("Folders") = "Notes" /\ next("Notes") = "Viewer"
    /\ next("Viewer") = "Folders"
    /\ \A f \in Focuses : prev(next(f)) = f /\ next(prev(f)) = f
    /\ pc = "loop" =>
          /\ handle_key(disk, app, [code |-> "Tab", kind |-> "Press"], None) =
                [app |-> [app EXCEPT !.focus = next(app.focus)], action |-> Continue]
          /\ handle_key(disk, app, [code |-> "BackTab", kind |-> "Press"], None) =
                [app |-> [app EXCEPT !.focus = prev(app.focus)], action |-> Continue]
          /\ after_press(after_press(after_press(app, "Tab"), "Tab"), "Tab") = app
          /\ after_press(after_press(after_press(app, "BackTab"), "BackTab"),
                         "BackTab") = app

\* two Tabs from the initial focus Folders: the focus is on the viewer
C18_Witness ==
    pc = "loop" /\ hist = <<"Tab", "Tab">> /\ app.focus = "Viewer"

(***************************************************************************)
(* Tag extraction on its own: sessions started on a vault of one note      *)
(***************************************************************************)
\* the most lines a note of these vaults has
MaxLines == 4

\* the lines the notes are made of
TagLines == {"---", " --- ", "tags: [a, b]", "tags: [a, 1]", "tags: a",
             "tags: 3", "title: t", "body", "  "}

\* no key is given twice (what serde_yaml makes of a repeated key is left out)
NoRepeatedKey(c) ==
    \A i, j \in 1..Len(c) :
        i < j /\ YamlLine(c[i]).ok /\ YamlLine(c[j]).ok
            => YamlLine(c[i]).key # YamlLine(c[j]).key

Contents ==
    {c \in UNION {[1..n -> TagLines] : n \in 0..MaxLines} : NoRepeatedKey(c)}

\* a session is started on the vault / whose only file is x.md with content c
InitTags ==
    /\ vault = 1
    /\ \E c \in Contents : disk = (pSlash :> Dir(<<>>, <<File(nXmd, c)>>))
    /\ app = NoApp
    /\ pc = "start"
    /\ raw_mode = FALSE
    /\ alt_screen = FALSE
    /\ res = "none"
    /\ open_req = NoReq
    /\ launch_result = "none"
    /\ edits = 0
    /\ hist = <<>>
    /\ config_file = DefaultConfig
    /\ command_result = NoResult
    /\ config_ops = <<>>

\* the session up to the end of AppState::new, which reads the note
NextTags == RunSetup \/ RunAppNew

SpecTags == InitTags /\ [][NextTags]_vars

Delimiters == {"---", " --- "}
StartsBlock(c) == c # <<>> /\ c[1] \in Delimiters
\* the lines between the opening delimiter and the first closing one, or the
\* end of the note
BlockOf(c) ==
    IF \E i \in 2..Len(c) : c[i] \in Delimiters
    THEN SubSeq(c, 2, (CHOOSE i \in 2..Len(c) :
                          /\ c[i] \in Delimiters
                          /\ \A j \in 2..(i - 1) : c[j] \notin Delimiters) - 1)
    ELSE SubSeq(c, 2, Len(c))
\* the block is a YAML mapping
BlockParses(b) ==
    \A i \in 1..Len(b) :
        b[i] \in {"tags: [a, b]", "tags: [a, 1]", "tags: a", "tags: 3",
                  "title: t", "  "}
BlockHas(b, line) == \E i \in 1..Len(b) : b[i] = line

\* the tags C19 describes for the note content c
ExpectedTags(c) ==
    IF ~StartsBlock(c) \/ BlockOf(c) = <<>> \/ ~BlockParses(BlockOf(c)) THEN <<>>
    ELSE IF BlockHas(BlockOf(c), "tags: [a, b]") THEN <<"a", "b">>
    ELSE IF BlockHas(BlockOf(c), "tags: [a, 1]") THEN <<"a">>
    ELSE IF BlockHas(BlockOf(c), "tags: a") THEN <<"a">>
    ELSE <<>>

\* C19: extract_tags never fails and returns the string items of a `tags`
\* sequence of the leading metadata block, a one-element list for a `tags`
\* string, and the empty list when the first line is not the delimiter, the
\* block is empty or does not parse, or `tags` is absent or of another type:
\* the note of every started session carries exactly these tags.
C19_ExtractTags ==
    /\ pc = "new" => AppState_new(disk, vault_path, app.editor_command).ok
    /\ pc = "loop" =>
          /\ Len(app.notes_cache[pSlash]) = 1
          /\ app.notes_cache[pSlash][1].tags =
                ExpectedTags(disk[pSlash].files[1].content)

\* a note whose block opens with a padded delimiter and has no closing one,
\* loaded with the two tags of its sequence
C19_Witness ==
    /\ pc = "loop"
    /\ Len(disk[pSlash].files[1].content) > 1
    /\ disk[pSlash].files[1].content[1] = " --- "
    /\ ~BlockHas(Tail(disk[pSlash].files[1].content), "---")
    /\ ~BlockHas(Tail(disk[pSlash].files[1].content), " --- ")
    /\ app.notes_cache[pSlash][1].tags = <<"a", "b">>

(***************************************************************************)
(* `config set` on its own                                                 *)
(***************************************************************************)
\* the command line tool is started while some configuration is persisted
InitConfig ==
    /\ config_file \in Configs
    /\ command_result = NoResult
    /\ config_ops = <<>>
    /\ vault = 1
    /\ disk = Vaults[1].disk
    /\ app = NoApp
    /\ pc = "start"
    /\ raw_mode = FALSE
    /\ alt_screen = FALSE
    /\ res = "none"
    /\ open_req = NoReq
    /\ launch_result = "none"
    /\ edits = 0
    /\ hist = <<>>

\* one invocation of `config set` with the flags args
ConfigSet(args, io) ==
    /\ config_file' = set(config_file, args, io).config
    /\ command_result' = set(config_file, args, io).result
    /\ config_ops' = set(config_file, args, io).ops
    /\ UNCHANGED <<vault, disk, app, pc, raw_mode, alt_screen, res, open_req,
                   launch_result, edits, hist>>

NextConfig == \E args \in SetArgs, io \in IoOutcomes : ConfigSet(args, io)

SpecConfig == InitConfig /\ [][NextConfig]_vars

\* the flags name something to change
NamesAField(args) == args.editor.some \/ args.theme.some \/ args.clear_editor

\* what C20 describes: exactly the fields the flags name are changed in the
\* persisted configuration, and "Configuration updated" is reported
UpdatedAsNamed(before, args, after, result) ==
    /\ args.editor.some => after.editor = args.editor
    /\ args.clear_editor => after.editor = None
    /\ ~args.editor.some /\ ~args.clear_editor => after.editor = before.editor
    /\ args.theme.some => after.theme = args.theme.val
    /\ ~args.theme.some => after.theme = before.theme
    /\ result = CommandOk("Configuration updated")

C21_SetWithoutFlagsIsNoop ==
    [][\A args \in SetArgs, io \in IoOutcomes :
          ConfigSet(args, io) /\ ~NamesAField(args)
              => /\ command_result' = CommandOk("Nothing to update")
                 /\ config_ops' = <<>>
                 /\ config_file' = config_file]_vars

\* `config set` without flags has run on a configuration that is not the
\* default one
C21_Witness ==
    /\ command_result = CommandOk("Nothing to update")
    /\ config_ops = <<>>
    /\ config_file = Config(Some("nvim"), "solarized-light")

(***************************************************************************)
(* Navigation, preview and key gating                                      *)
(***************************************************************************)
RECURSIVE presses(_, _, _)
\* the AppState after n presses of `code`
presses(a, code, n) ==
    IF n = 0 THEN a ELSE presses(after_press(a, code), code, n - 1)

\* the path of the last visible folder
last_visible(a) == visible_folders(a)[Len(visible_folders(a))].path

\* the visible folder below the selected one, at position i of the list
StepsOnto(a, i, after) ==
    /\ after.selected_folder = visible_folders(a)[i + 2].path
    /\ ~read_notes(disk, visible_folders(a)[i + 2].path).ok
          => notes_for_selected_folder(after) = <<>>

\* C22: a Down press with focus Folders, from any position of the visible
\* folder list but the last, selects the next visible folder, with an empty
\* note list if its notes cannot be read; and as many Down presses as the
\* list is long end on the last visible folder, even past an unreadable one.
C22_UnreadableFolderSelected ==
    pc = "loop" /\ app.focus = "Folders" /\ visible_folder_index(app).some =>
        /\ visible_folder_index(app).val + 1 < Len(visible_folders(app)) =>
              StepsOnto(app, visible_folder_index(app).val,
                        after_press(app, "Down"))
        /\ presses(app, "Down", Len(visible_folders(app))).selected_folder =
              last_visible(app)

\* C23: in every state of a session in which no editor has run yet, the
\* preview is what refresh_note_preview derives from the current selection:
\* the content of the selected note, or the read error naming it, when a note
\* is selected, and "Select a note to preview" when none is; so after every
\* key event, Up/Down with focus Notes in a folder without notes included.
C23_PreviewMatchesSelection ==
    pc = "loop" /\ edits = 0 =>
        app.note_preview = preview_for(disk, selected_note_path(app))

\* every markdown file of the folder has its entry in got, with the
\* modification time read or absent
AllNotesListed(folder, files, got) ==
    /\ got.ok
    /\ \A i \in 1..Len(files) :
          is_markdown(folder \o <<files[i].name>>) =>
              \E j \in 1..Len(got.notes) :
                  /\ got.notes[j].name = files[i].name
                  /\ got.notes[j].modified =
                        IF files[i].meta_ok THEN files[i].mtime ELSE None

\* C24: read_notes of a folder that can be listed never fails because of one
\* note: a note whose metadata or modification time cannot be read is listed
\* with modified absent, next to the other notes of the folder.
C24_MetadataNeverFatal ==
    \A folder \in DOMAIN disk :
        disk[folder].readable =>
            AllNotesListed(folder, disk[folder].files, read_notes(disk, folder))

\* b differs from a at most in the note selection and its preview
NoteSelectionOnly(a, b) ==
    b = [a EXCEPT !.selected_note = b.selected_note,
                  !.note_preview = b.note_preview]

\* b differs from a at most in the folder selection and what select_folder
\* derives from it, or else in the status line alone, holding the error
FolderSelectionOnly(a, b) ==
    /\ b = [a EXCEPT !.selected_folder = b.selected_folder,
                     !.selected_note = b.selected_note,
                     !.notes_cache = b.notes_cache,
                     !.note_preview = b.note_preview,
                     !.status = b.status,
                     !.reads = b.reads]
    /\ b.status # a.status =>
          /\ b.selected_folder = a.selected_folder
          /\ b.selected_note = a.selected_note
          /\ b.notes_cache = a.notes_cache
          /\ b.note_preview = a.note_preview

ArrowKeys == {"Up", "Down", "Left", "Right"}

\* C25: the arrow keys are gated by the focus. Up and Down change the folder
\* selection only (and what follows from it) with focus Folders, the note
\* selection only with focus Notes, nothing with focus Viewer; Left and
\* Right change nothing unless the focus is Folders; no arrow key ends the
\* session or opens a note.
C25_ArrowsGatedByFocus ==
    pc = "loop" =>
        /\ \A code \in ArrowKeys :
              handle_key(disk, app, [code |-> code, kind |-> "Press"], None).action
                  = Continue
        /\ app.focus = "Viewer" =>
              \A code \in ArrowKeys : after_press(app, code) = app
        /\ app.focus = "Notes" =>
              /\ \A code \in {"Left", "Right"} : after_press(app, code) = app
              /\ \A code \in {"Up", "Down"} :
                    NoteSelectionOnly(app, after_press(app, code))
        /\ app.focus = "Folders" =>
              \A code \in {"Up", "Down"} :
                  FolderSelectionOnly(app, after_press(app, code))

\* Left was pressed with focus Notes on the expanded root: it is still
\* expanded
C25_Witness ==
    /\ pc = "loop" /\ hist = <<"Tab", "Left">> /\ app.focus = "Notes"
    /\ app.selected_folder = app.vault_path
    /\ app.selected_folder \in app.expanded

\* C26: a key event whose kind is not Press, whatever its key code and
\* whatever cli_config::resolve_editor would answer, makes handle_key return
\* Continue with the AppState as it was, and is not counted as a key press:
\* the event loop goes on with the session as it was.
C26_NonPressIgnored ==
    pc = "loop" =>
        \A key \in KeyEvents, resolved \in ResolvedEditors :
            key.kind # "Press" =>
                /\ handle_key(disk, app, key, resolved) =
                      [app |-> app, action |-> Continue]
                /\ record_key(hist, key) = hist

\* a session in which the release or repeat of q, Enter, e and o comes at a
\* point where their press would end the session or open the selected note
C26_Witness ==
    /\ pc = "loop" /\ app.focus = "Notes"
    /\ selected_note_path(app).some /\ app.editor_command.some
    /\ handle_key(disk, app, [code |-> "q", kind |-> "Press"], None).action = Quit
    /\ \A code \in {"Enter", "e", "o"} :
          handle_key(disk, app, [code |-> code, kind |-> "Press"], None).action.kind
              = "Open"

\* whatever cli_config::resolve_editor may answer: Err or some command
Resolutions == {None} \cup {Some(n) : n \in EditorNames}

\* the open request `key` with the command `held` cached: the Open action
\* carries it and the AppState stays, whatever the resolver would answer
OpensWithHeld(a, key, held) ==
    \A resolved \in Resolutions :
        handle_key(disk, a, key, resolved) =
            [app |-> a, action |-> Open(held, selected_note_path(a).val)]

\* the open request `key` with no command cached: an answer of the resolver
\* is stored and carried by the Open action, a failure stores nothing
ResolvesAndStores(a, key) ==
    /\ \A resolved \in Resolutions \ {None} :
          handle_key(disk, a, key, resolved) =
              [app |-> [a EXCEPT !.editor_command = resolved],
               action |-> Open(resolved.val, selected_note_path(a).val)]
    /\ handle_key(disk, a, key, None).app.editor_command = None
    /\ handle_key(disk, a, key, None).action = Continue

\* C27: the editor command is resolved at most once per session. Once
\* editor_command holds a value it keeps it for the rest of the session, and
\* every open request on a selected note yields Open with that command,
\* whatever the resolver would answer now; while it holds none, an open
\* request stores a successful resolution and stores nothing when the
\* resolution fails, so that the next request resolves again.
C27_EditorResolvedOnce ==
    /\ [](pc = "loop" /\ selected_note_path(app).some =>
            \A key \in OpenRequests(app) :
                IF app.editor_command.some
                THEN OpensWithHeld(app, key, app.editor_command.val)
                ELSE ResolvesAndStores(app, key))
    /\ [][InSession /\ InSession' /\ app.editor_command.some
            => app'.editor_command = app.editor_command]_vars

\* the first request found no editor, the second one resolved it: the
\* command is stored and the note is about to be opened with it
C27_Witness ==
    /\ pc = "suspend" /\ hist = <<"e", "e">>
    /\ app.editor_command = Some("vim")
    /\ open_req.editor = "vim"

\* C28: in every state of a session the selected folder is one of
\* visible_folders(): visible_folder_index() is defined, after
\* AppState::new and after any sequence of key presses.
C28_SelectedFolderVisible ==
    InSession => visible_folder_index(app).some

====
